---- MODULE Spec2Model ----
(***************************************************************************)
(* Model of the bip buffer of bbuf-rs: the offset tracker                  *)
(* (src/src/tracker.rs), the buffer that couples it with a byte region     *)
(* (src/src/buffer.rs) and the sink worker that drains the buffer          *)
(* (src/src/sink.rs).                                                      *)
(*                                                                         *)
(* Offsets are 0-based as in the source; the byte region is a function     *)
(* 0..capacity-1 -> byte.  Payloads and views are sequences.               *)
(*                                                                         *)
(* usize arithmetic: the only additions are write_offset + sz and          *)
(* start + len with write_offset, start <= capacity and sz the length of   *)
(* a slice (<= isize::MAX), so no sum reaches 2^64 and plain integers are  *)
(* exact.                                                                  *)
(***************************************************************************)
EXTENDS Integers, Sequences, FiniteSets, TLC

\* ---------------------------------------------------------------- bounds
\* capacities explored: 1..MaxCapacity
MaxCapacity == 4
\* total number of payload bytes accepted in one behaviour
MaxBytes == 8
\* number of Handle values (the original and its clones)
MaxHandles == 2
\* capacities and accepted bytes explored by the sink worker specifications
MaxSinkCapacity == 2
MaxSinkBytes == 3

None == [none |-> TRUE]

VARIABLES
    tracker,    \* Buffer.tracker: [capacity, write_offset, read_offset, inverted_at]
    data,       \* Buffer.data: the byte region, 0..capacity-1 -> byte
    lease,      \* the outstanding buffer::Lease's ReadLease, or None
    snapshot,   \* history: the lease's view as it was when read returned it
    written,    \* history: concatenation of the payloads try_write accepted
    delivered,  \* history: concatenation of the views read returned
    last,       \* history: the last call on the buffer and its result (Spec only)
    handles,    \* sink: Handle id -> "unborn" | "idle" | "send" | "dropped"
    chan,       \* sink: number of () messages in the bounded(1) channel
    wpc,        \* sink: position of the worker closure
    sunk,       \* sink: concatenation of the slices passed to write_all
    failed,     \* sink: whether the last write_all returned Err
    flushes,    \* sink: the values of Len(sunk) at each call of flush
    coalesced   \* history: a try_send found the channel full with bytes not yet sunk

bufvars == <<tracker, data, lease, snapshot, written, delivered>>
sinkvars == <<handles, chan, wpc, sunk, failed, flushes, coalesced>>
vars == <<tracker, data, lease, snapshot, written, delivered, last,
          handles, chan, wpc, sunk, failed, flushes, coalesced>>

\* ---------------------------------------------------------------- tracker

\* Tracker::new
TrackerNew(capacity) ==
    [capacity |-> capacity, write_offset |-> 0, read_offset |-> 0, inverted_at |-> 0]

\* WriteLease::new / ReadLease::new: a range start..end kept as (start, len)
LeaseNew(start, end) == [start |-> start, len |-> end - start]

\* Tracker::write with the flip tested against write_offset, not read_offset
TrackerWriteFlipAnywhere(t, sz) ==
    LET already_inverted == t.inverted_at > 0
        write_cap == IF already_inverted THEN t.read_offset ELSE t.capacity
    IN  IF t.write_offset + sz <= write_cap
        THEN [w |-> LeaseNew(t.write_offset, t.write_offset + sz), t |-> t]
        ELSE IF ~already_inverted /\ sz <= t.write_offset
        THEN [w |-> LeaseNew(0, 0 + sz),
              t |-> [t EXCEPT !.inverted_at = t.write_offset]]
        ELSE [w |-> None, t |-> t]

\* Tracker::write with write_cap = capacity also when inverted
TrackerWriteCapIgnoresInversion(t, sz) ==
    LET already_inverted == t.inverted_at > 0
        write_cap == t.capacity
    IN  IF t.write_offset + sz <= write_cap
        THEN [w |-> LeaseNew(t.write_offset, t.write_offset + sz), t |-> t]
        ELSE IF ~already_inverted /\ sz <= t.read_offset
        THEN [w |-> LeaseNew(0, 0 + sz),
              t |-> [t EXCEPT !.inverted_at = t.write_offset]]
        ELSE [w |-> None, t |-> t]

\* Tracker::write leaving the inverted_at marker before it knows that the
\* payload fits at the start of the region
TrackerWriteMarksEarly(t, sz) ==
    LET already_inverted == t.inverted_at > 0
        write_cap == IF already_inverted THEN t.read_offset ELSE t.capacity
    IN  IF t.write_offset + sz <= write_cap
        THEN [w |-> LeaseNew(t.write_offset, t.write_offset + sz), t |-> t]
        ELSE IF ~already_inverted
        THEN [w |-> IF sz <= t.read_offset THEN LeaseNew(0, 0 + sz) ELSE None,
              t |-> [t EXCEPT !.inverted_at = t.write_offset]]
        ELSE [w |-> None, t |-> t]

\* Tracker::write with the strict comparisons of the earlier revisions
TrackerWriteStrict(t, sz) ==
    LET already_inverted == t.inverted_at > 0
        write_cap == IF already_inverted THEN t.read_offset ELSE t.capacity
    IN  IF t.write_offset + sz < write_cap
        THEN [w |-> LeaseNew(t.write_offset, t.write_offset + sz), t |-> t]
        ELSE IF ~already_inverted /\ sz < t.read_offset
        THEN [w |-> LeaseNew(0, 0 + sz),
              t |-> [t EXCEPT !.inverted_at = t.write_offset]]
        ELSE [w |-> None, t |-> t]

\* Tracker::write that flips without testing that the payload fits below
\* read_offset
TrackerWriteFlipUnchecked(t, sz) ==
    LET already_inverted == t.inverted_at > 0
        write_cap == IF already_inverted THEN t.read_offset ELSE t.capacity
    IN  IF t.write_offset + sz <= write_cap
        THEN [w |-> LeaseNew(t.write_offset, t.write_offset + sz), t |-> t]
        ELSE IF ~already_inverted
        THEN [w |-> LeaseNew(0, 0 + sz),
              t |-> [t EXCEPT !.inverted_at = t.write_offset]]
        ELSE [w |-> None, t |-> t]

\* Tracker::write that treats a request of no bytes as one it cannot grant
TrackerWriteRejectsEmpty(t, sz) ==
    LET already_inverted == t.inverted_at > 0
        write_cap == IF already_inverted THEN t.read_offset ELSE t.capacity
    IN  IF sz = 0
        THEN [w |-> None, t |-> t]
        ELSE IF t.write_offset + sz <= write_cap
        THEN [w |-> LeaseNew(t.write_offset, t.write_offset + sz), t |-> t]
        ELSE IF ~already_inverted /\ sz <= t.read_offset
        THEN [w |-> LeaseNew(0, 0 + sz),
              t |-> [t EXCEPT !.inverted_at = t.write_offset]]
        ELSE [w |-> None, t |-> t]

\* Tracker::write: the lease granted (or None) and the tracker afterwards.
\* The flip branch stores inverted_at before the lease is returned.
TrackerWrite(t, sz) ==
    LET already_inverted == t.inverted_at > 0
        write_cap == IF already_inverted THEN t.read_offset ELSE t.capacity
    IN  IF t.write_offset + sz <= write_cap
        THEN [w |-> LeaseNew(t.write_offset, t.write_offset + sz), t |-> t]
        ELSE IF ~already_inverted /\ sz <= t.read_offset
        THEN [w |-> LeaseNew(0, 0 + sz),
              t |-> [t EXCEPT !.inverted_at = t.write_offset]]
        ELSE [w |-> None, t |-> t]

\* Tracker::read that ends the range at write_offset also when inverted
TrackerReadIgnoresInversion(t) ==
    LET start == t.read_offset
        end == t.write_offset
    IN  IF start = end THEN None ELSE LeaseNew(start, end)

\* Tracker::read that ends an inverted buffer's range at the end of the
\* region, not at the marker
TrackerReadToCapacity(t) ==
    LET start == t.read_offset
        end == IF t.inverted_at > 0 THEN t.capacity ELSE t.write_offset
    IN  IF start = end THEN None ELSE LeaseNew(start, end)

\* Tracker::read: the lease granted, or None; the tracker is not changed
TrackerRead(t) ==
    LET start == t.read_offset
        end == IF t.inverted_at > 0 THEN t.inverted_at ELSE t.write_offset
    IN  IF start = end THEN None ELSE LeaseNew(start, end)

\* Tracker::commit that advances write_offset by the length, as the append
\* of shared.rs does
TrackerCommitAdds(t, w) == [t EXCEPT !.write_offset = t.write_offset + w.len]

\* Tracker::commit
TrackerCommit(t, w) == [t EXCEPT !.write_offset = w.start + w.len]

\* Tracker::release whose tail-drained branch forgets to clear inverted_at
TrackerReleaseKeepsMarker(t, r) ==
    LET end == r.start + r.len
    IN  IF end = t.write_offset
        THEN [t EXCEPT !.read_offset = 0, !.write_offset = 0]
        ELSE IF end = t.inverted_at
        THEN [t EXCEPT !.read_offset = 0]
        ELSE [t EXCEPT !.read_offset = end]

\* Tracker::release without the tail-drained branch
TrackerReleaseNoTailFlip(t, r) ==
    LET end == r.start + r.len
    IN  IF end = t.write_offset
        THEN [t EXCEPT !.read_offset = 0, !.write_offset = 0]
        ELSE [t EXCEPT !.read_offset = end]

\* Tracker::release whose catch-up branch resets write_offset only
TrackerReleaseResetsWriterOnly(t, r) ==
    LET end == r.start + r.len
    IN  IF end = t.write_offset
        THEN [t EXCEPT !.read_offset = end, !.write_offset = 0]
        ELSE IF end = t.inverted_at
        THEN [t EXCEPT !.read_offset = 0, !.inverted_at = 0]
        ELSE [t EXCEPT !.read_offset = end]

\* Tracker::release without the catch-up reset
TrackerReleaseNoReset(t, r) ==
    LET end == r.start + r.len
    IN  IF end = t.inverted_at
        THEN [t EXCEPT !.read_offset = 0, !.inverted_at = 0]
        ELSE [t EXCEPT !.read_offset = end]

\* Tracker::release
TrackerRelease(t, r) ==
    LET end == r.start + r.len
    IN  IF end = t.write_offset
        THEN [t EXCEPT !.read_offset = 0, !.write_offset = 0]
        ELSE IF end = t.inverted_at
        THEN [t EXCEPT !.read_offset = 0, !.inverted_at = 0]
        ELSE [t EXCEPT !.read_offset = end]

\* ---------------------------------------------------------------- buffer

\* the half-open range [start, start+len) of a lease
Range(l) == l.start .. (l.start + l.len - 1)

\* data[w.start..][..w.len].copy_from_slice(p)
CopyFromSlice(d, w, p) ==
    [i \in DOMAIN d |-> IF i \in Range(w) THEN p[i - w.start + 1] ELSE d[i]]

\* &data[r.start..][..r.len]: a view is a borrow of the region, so what it
\* shows is the region's current content
View(d, r) == [i \in 1..r.len |-> d[r.start + i - 1]]

\* the payload of n bytes offered when k bytes have been accepted so far:
\* the bytes k+1 .. k+n, so that every accepted byte has its own value and
\* a lost, repeated or reordered byte shows in the delivered stream
Payload(k, n) == [i \in 1..n |-> k + i]

\* number of unread bytes as the tracker's offsets give it
Unread(t) ==
    IF t.inverted_at = 0 THEN t.write_offset - t.read_offset
    ELSE (t.inverted_at - t.read_offset) + t.write_offset

\* buffer::create
Create(capacity) ==
    /\ tracker = TrackerNew(capacity)
    /\ data = [i \in 0..capacity-1 |-> 0]
    /\ lease = None
    /\ snapshot = <<>>
    /\ written = <<>>
    /\ delivered = <<>>
    /\ last = [op |-> "create"]

\* Writer::try_write(p) with p of n bytes, under the tracker mutex; ok is
\* the value returned.  A granted range that left the region would make the
\* slice index panic; max caps the bytes one behaviour accepts.
TryWrite(n, max, ok) ==
    LET p == Payload(Len(written), n)
        g == TrackerWrite(tracker, n)
    IN  /\ ok = (g.w # None)
        /\ IF g.w = None
           THEN /\ tracker' = g.t
                /\ UNCHANGED <<data, written, lease, snapshot, delivered>>
           ELSE /\ Len(written) + n <= max
                /\ g.w.start + g.w.len <= tracker.capacity
                /\ data' = CopyFromSlice(data, g.w, p)
                /\ tracker' = TrackerCommit(g.t, g.w)
                /\ written' = written \o p
                /\ UNCHANGED <<lease, snapshot, delivered>>

\* Reader::read; ok tells Some from None.  The &mut borrow of the Reader
\* held by a Lease allows one lease at a time.
Read(ok) ==
    LET r == TrackerRead(tracker)
    IN  /\ lease = None
        /\ ok = (r # None)
        /\ IF r = None
           THEN UNCHANGED <<lease, snapshot, delivered>>
           ELSE /\ lease' = r
                /\ snapshot' = View(data, r)
                /\ delivered' = delivered \o View(data, r)
        /\ UNCHANGED <<tracker, data, written>>

\* Drop for Lease
Release ==
    /\ lease # None
    /\ tracker' = TrackerRelease(tracker, lease)
    /\ lease' = None
    /\ snapshot' = <<>>
    /\ UNCHANGED <<data, written, delivered>>

\* sink state of a buffer used without the sink worker
NoSink ==
    /\ handles = [h \in 1..MaxHandles |-> "unborn"]
    /\ chan = 0
    /\ wpc = "none"
    /\ sunk = <<>>
    /\ failed = FALSE
    /\ flushes = <<>>
    /\ coalesced = FALSE

Init ==
    /\ \E capacity \in 1..MaxCapacity : Create(capacity)
    /\ NoSink

\* the calls a user of the buffer makes; last keeps the call and its result
WriteStep ==
    \E n \in 0..tracker.capacity+1, ok \in BOOLEAN :
        /\ TryWrite(n, MaxBytes, ok)
        /\ last' = IF ok
                   THEN [op |-> "try_write", ok |-> TRUE, n |-> n,
                         w |-> TrackerWrite(tracker, n).w]
                   ELSE [op |-> "try_write", ok |-> FALSE, n |-> n]
        /\ UNCHANGED sinkvars

ReadStep ==
    \E ok \in BOOLEAN :
        /\ Read(ok)
        /\ last' = IF ok THEN [op |-> "read", ok |-> TRUE, r |-> TrackerRead(tracker)]
                         ELSE [op |-> "read", ok |-> FALSE]
        /\ UNCHANGED sinkvars

ReleaseStep ==
    /\ Release
    /\ last' = [op |-> "release", r |-> lease]
    /\ UNCHANGED sinkvars

Next == WriteStep \/ ReadStep \/ ReleaseStep

Spec == Init /\ [][Next]_vars

\* ---------------------------------------------------------------- scenario
\* the buffer of the tests: Tracker::new(10), written in payloads of 4 bytes
ScenarioCapacity == 10
ScenarioPayload == 4
\* bytes accepted in one behaviour of the scenario
MaxScenarioBytes == 24

ScenarioInit ==
    /\ Create(ScenarioCapacity)
    /\ NoSink

ScenarioWriteStep ==
    \E ok \in BOOLEAN :
        /\ TryWrite(ScenarioPayload, MaxScenarioBytes, ok)
        /\ last' = IF ok
                   THEN [op |-> "try_write", ok |-> TRUE, n |-> ScenarioPayload,
                         w |-> TrackerWrite(tracker, ScenarioPayload).w]
                   ELSE [op |-> "try_write", ok |-> FALSE, n |-> ScenarioPayload]
        /\ UNCHANGED sinkvars

ScenarioNext == ScenarioWriteStep \/ ReadStep \/ ReleaseStep

ScenarioSpec == ScenarioInit /\ [][ScenarioNext]_vars

\* ------------------------------------------------------ tracker with aborts
\* Tracker::write(n) grants a WriteLease and the caller drops it without
\* Tracker::commit: what write assigned stays, write_offset does not move,
\* and no byte is stored
WriteAbort(n) ==
    LET res == TrackerWrite(tracker, n)
    IN  /\ res.w # None
        /\ tracker' = res.t
        /\ last' = [op |-> "write_abort", n |-> n, w |-> res.w]
        /\ UNCHANGED <<data, lease, snapshot, written, delivered>>

AbortStep ==
    /\ \E n \in 0..tracker.capacity+1 : WriteAbort(n)
    /\ UNCHANGED sinkvars

\* the tracker driven through its own interface: the buffer's calls, and
\* writes whose lease is dropped
TrackerNext == Next \/ AbortStep

TrackerSpec == Init /\ [][TrackerNext]_vars

\* ---------------------------------------------------------------- sink

Alive(h) == handles[h] \in {"idle", "send"}

\* every Sender of the notifier has been dropped
Disconnected == \A h \in 1..MaxHandles : ~Alive(h)

\* sink::spawn: the buffer, the bounded(1) channel, the worker thread at its
\* first rx.recv(), and the one Handle returned
Spawn(capacity) ==
    /\ Create(capacity)
    /\ handles = [h \in 1..MaxHandles |-> IF h = 1 THEN "idle" ELSE "unborn"]
    /\ chan = 0
    /\ wpc = "recv"
    /\ sunk = <<>>
    /\ failed = FALSE
    /\ flushes = <<>>
    /\ coalesced = FALSE

\* #[derive(Clone)] for Handle: another Writer and another Sender
HandleClone(h, c) ==
    /\ handles[h] = "idle"
    /\ handles[c] = "unborn"
    /\ handles' = [handles EXCEPT ![c] = "idle"]
    /\ UNCHANGED <<bufvars, last, chan, wpc, sunk, failed, flushes, coalesced>>

\* Handle::write, first half: self.writer.try_write(p)
HandleWrite(h, n) ==
    /\ handles[h] = "idle"
    /\ \E ok \in BOOLEAN :
          /\ TryWrite(n, MaxSinkBytes, ok)
          /\ handles' = [handles EXCEPT ![h] = IF ok THEN "send" ELSE "idle"]
    /\ UNCHANGED <<last, chan, wpc, sunk, failed, flushes, coalesced>>

\* Handle::write, second half: let _ = self.tx.try_send(()), which leaves a
\* full channel as it is
HandleSend(h) ==
    /\ handles[h] = "send"
    /\ chan' = IF chan < 1 THEN chan + 1 ELSE chan
    /\ coalesced' = (coalesced \/ (chan >= 1 /\ Len(sunk) < Len(written)))
    /\ handles' = [handles EXCEPT ![h] = "idle"]
    /\ UNCHANGED <<bufvars, last, wpc, sunk, failed, flushes>>

\* a Handle goes out of scope
HandleDrop(h) ==
    /\ handles[h] = "idle"
    /\ handles' = [handles EXCEPT ![h] = "dropped"]
    /\ UNCHANGED <<bufvars, last, chan, wpc, sunk, failed, flushes, coalesced>>

\* a recv that keeps waiting on an empty channel after every Sender is gone
WorkerRecvIgnoresClose ==
    /\ wpc = "recv"
    /\ chan > 0
    /\ chan' = chan - 1 /\ wpc' = "drain"
    /\ UNCHANGED <<bufvars, last, handles, sunk, failed, flushes, coalesced>>

\* the worker's recv loop written with try_recv: an empty channel ends it
WorkerRecvNonBlocking ==
    /\ wpc = "recv"
    /\ IF chan > 0
       THEN chan' = chan - 1 /\ wpc' = "drain"
       ELSE chan' = chan /\ wpc' = "final"
    /\ UNCHANGED <<bufvars, last, handles, sunk, failed, flushes, coalesced>>

\* while let Ok(()) = rx.recv(): takes a message if there is one, blocks
\* while the channel is empty and a Sender lives, and ends the loop once the
\* channel is empty and disconnected
WorkerRecv ==
    /\ wpc = "recv"
    /\ IF chan > 0
       THEN chan' = chan - 1 /\ wpc' = "drain"
       ELSE Disconnected /\ chan' = chan /\ wpc' = "final"
    /\ UNCHANGED <<bufvars, last, handles, sunk, failed, flushes, coalesced>>

\* while let Some(lease) = reader.read(), in the recv loop ("drain") and in
\* the pass after it ("final")
WorkerRead ==
    /\ wpc \in {"drain", "final"}
    /\ \E ok \in BOOLEAN :
          /\ Read(ok)
          /\ wpc' = IF ok
                    THEN (IF wpc = "drain" THEN "write" ELSE "final_write")
                    ELSE (IF wpc = "drain" THEN "recv" ELSE "flush")
    /\ UNCHANGED <<last, handles, chan, sunk, failed, flushes, coalesced>>

\* write_all's Err propagated out of the closure instead of ignored
WorkerWriteAllBails ==
    /\ wpc \in {"write", "final_write"}
    /\ sunk' = sunk \o View(data, lease)
    /\ \E err \in BOOLEAN :
          /\ failed' = err
          /\ wpc' = IF err THEN "done"
                    ELSE (IF wpc = "write" THEN "release" ELSE "final_release")
    /\ UNCHANGED <<bufvars, last, handles, chan, flushes, coalesced>>

\* inner.write_all(lease.view), outside the mutex; an Err is ignored
WorkerWriteAll ==
    /\ wpc \in {"write", "final_write"}
    /\ sunk' = sunk \o View(data, lease)
    /\ \E err \in BOOLEAN : failed' = err
    /\ wpc' = IF wpc = "write" THEN "release" ELSE "final_release"
    /\ UNCHANGED <<bufvars, last, handles, chan, flushes, coalesced>>

\* the recv loop's drain that goes back to recv after one lease
WorkerReleaseOneLease ==
    /\ wpc \in {"release", "final_release"}
    /\ Release
    /\ wpc' = IF wpc = "release" THEN "recv" ELSE "final"
    /\ UNCHANGED <<last, handles, chan, sunk, failed, flushes, coalesced>>

\* the lease is dropped at the end of the loop body, and the loop reads again
WorkerRelease ==
    /\ wpc \in {"release", "final_release"}
    /\ Release
    /\ wpc' = IF wpc = "release" THEN "drain" ELSE "final"
    /\ UNCHANGED <<last, handles, chan, sunk, failed, flushes, coalesced>>

\* let _ = inner.flush(), then the closure returns
WorkerFlush ==
    /\ wpc = "flush"
    /\ flushes' = Append(flushes, Len(sunk))
    /\ wpc' = "done"
    /\ UNCHANGED <<bufvars, last, handles, chan, sunk, failed, coalesced>>

Worker == WorkerRecv \/ WorkerRead \/ WorkerWriteAll \/ WorkerRelease \/ WorkerFlush

SinkInit == \E capacity \in 1..MaxSinkCapacity : Spawn(capacity)

SinkNext ==
    \/ \E h \in 1..MaxHandles, c \in 1..MaxHandles : HandleClone(h, c)
    \/ \E h \in 1..MaxHandles, n \in 0..tracker.capacity+1 : HandleWrite(h, n)
    \/ \E h \in 1..MaxHandles : HandleSend(h)
    \/ \E h \in 1..MaxHandles : HandleDrop(h)
    \/ Worker

SinkSpec == SinkInit /\ [][SinkNext]_vars

\* the worker thread and every thread inside Handle::write keep running;
\* nothing obliges a thread to call Handle::write, clone or drop
SinkFairSpec ==
    /\ SinkSpec
    /\ WF_vars(Worker)
    /\ \A h \in 1..MaxHandles : WF_vars(HandleSend(h))

\* ---------------------------------------------------------------- properties

IsPrefix(s, t) == Len(s) <= Len(t) /\ SubSeq(t, 1, Len(s)) = s

\* C1 (conservation): the concatenation of the views returned by successive
\* reads is a prefix of the concatenation of the accepted try_write payloads
\* in commit order, and equals it whenever read would return None.
Conservation ==
    /\ IsPrefix(delivered, written)
    /\ (lease = None /\ TrackerRead(tracker) = None) => delivered = written

\* the buffer has been drained after more bytes than it holds went through
\* it, the last of them read from the head after an inversion
ConservationWitness ==
    /\ lease = None
    /\ TrackerRead(tracker) = None
    /\ last.op = "release"
    /\ Len(written) > tracker.capacity
    /\ delivered = written

\* C2 (lease stability): while a lease is outstanding the bytes of its range
\* are those its view showed when read returned it, whatever try_write ran
\* in between.
LeaseStability == lease # None => View(data, lease) = snapshot

\* a write that flipped the tracker to Inverted ran during a lease
LeaseStabilityWitness ==
    /\ lease # None
    /\ last.op = "try_write" /\ last.ok /\ last.n > 0
    /\ last.w.start = 0
    /\ tracker.inverted_at > 0

\* C3 (disjointness): a write range granted while a read-lease is
\* outstanding is disjoint from the lease's range, and read_offset is not
\* past the lease's start while the lease is outstanding.
Disjointness ==
    lease # None =>
        /\ tracker.read_offset <= lease.start
        /\ (last.op = "try_write" /\ last.ok) =>
               Range(last.w) \cap Range(lease) = {}

\* a non-empty write was granted below an outstanding lease
DisjointnessWitness ==
    /\ lease # None /\ lease.start > 0
    /\ last.op = "try_write" /\ last.ok /\ last.n > 0
    /\ last.w.start + last.w.len <= lease.start

\* C4 (no torn read): an outstanding read-lease covers [s, e) with
\* s < e <= capacity.
NoTornRead ==
    lease # None =>
        /\ 0 <= lease.start
        /\ lease.len > 0
        /\ lease.start + lease.len <= tracker.capacity

\* read granted only the tail of an inverted buffer that also holds head data
NoTornReadWitness ==
    /\ lease # None
    /\ last.op = "read" /\ last.ok
    /\ tracker.inverted_at > 0 /\ tracker.write_offset > 0
    /\ lease.start + lease.len = tracker.inverted_at

\* C5 (all-or-nothing): a try_write that returns false leaves the tracker
\* and the byte region as they were; one that returns true stores the whole
\* payload in one granted range inside the region, changes no other byte and
\* grows the unread size by the payload's length.
AllOrNothing ==
    [][\A n \in 0..MaxCapacity+1 :
          (last'.op = "try_write" /\ last'.n = n /\ TryWrite(n, MaxBytes, last'.ok)) =>
            IF last'.ok
            THEN /\ last'.w.len = n
                 /\ 0 <= last'.w.start
                 /\ last'.w.start + n <= tracker.capacity
                 /\ View(data', last'.w) = Payload(Len(written), n)
                 /\ \A i \in DOMAIN data \ Range(last'.w) : data'[i] = data[i]
                 /\ Unread(tracker') = Unread(tracker) + n
            ELSE tracker' = tracker /\ data' = data]_vars

\* a payload that would fit the free bytes in total, but not contiguously,
\* was rejected
AllOrNothingWitness ==
    /\ last.op = "try_write" /\ ~last.ok
    /\ last.n > 0
    /\ last.n <= tracker.capacity - Unread(tracker)

\* C6 (read returns Some iff unread bytes exist): with no lease outstanding,
\* read grants a lease exactly when more bytes were committed than released.
ReadSomeIffUnread ==
    lease = None =>
        ((TrackerRead(tracker) # None) <=> (Len(written) - Len(delivered) > 0))

\* read returned None on a buffer that had carried data, and read returned
\* a lease: the two cases are told apart by last
ReadSomeIffUnreadWitness ==
    /\ last.op = "read" /\ ~last.ok
    /\ Len(written) > 0
    /\ Len(written) = Len(delivered)

\* C7 (shutdown): once every Handle is dropped and the worker has returned,
\* the bytes passed to write_all are exactly the accepted payloads in commit
\* order, and flush was called once, after the last write_all.
ShutdownCorrect ==
    (wpc = "done" /\ Disconnected) =>
        /\ sunk = written
        /\ flushes = <<Len(sunk)>>

\* the worker has returned after carrying more bytes than the buffer holds,
\* written through two Handles
ShutdownCorrectWitness ==
    /\ wpc = "done" /\ Disconnected
    /\ \A h \in 1..2 : handles[h] = "dropped"
    /\ Len(written) > tracker.capacity
    /\ sunk = written

\* C8 (coalescing loses no wake-up): every accepted byte is eventually passed
\* to write_all, whether or not a Handle is ever dropped and whether or not
\* its try_send found the channel full.
NoLostWakeup ==
    \A k \in 1..MaxSinkBytes : (Len(written) >= k) ~> (Len(sunk) >= k)

\* a try_send found the channel full while accepted bytes were waiting, its
\* message was dropped, and every accepted byte has since been passed to the
\* sink with no Handle dropped
NoLostWakeupWitness ==
    /\ coalesced
    /\ sunk = written
    /\ wpc = "recv" /\ chan = 0
    /\ \A h \in 1..MaxHandles : handles[h] # "dropped"

\* the write cap of Tracker::write: capacity in Normal state, read_offset in
\* Inverted state
WriteCapOf(t) == IF t.inverted_at > 0 THEN t.read_offset ELSE t.capacity

\* C9 (exact fill): a try_write of n bytes with write_offset + n equal to the
\* write cap is granted at write_offset; on an empty buffer a write of
\* capacity bytes is granted [0, capacity); from the state that write leaves,
\* read grants the one lease [0, capacity); and while that lease is
\* outstanding every non-empty try_write is rejected.
ExactFill ==
    [][/\ \A n \in 0..MaxCapacity+1 :
            (last'.op = "try_write" /\ last'.n = n /\ TryWrite(n, MaxBytes, last'.ok)) =>
              /\ (tracker.write_offset + n = WriteCapOf(tracker)) =>
                    (last'.ok /\ last'.w = [start |-> tracker.write_offset, len |-> n])
              /\ (n = tracker.capacity /\ tracker = TrackerNew(tracker.capacity)) =>
                    (last'.ok /\ last'.w = [start |-> 0, len |-> tracker.capacity])
              /\ (n > 0 /\ lease = [start |-> 0, len |-> tracker.capacity]) =>
                    ~last'.ok
       /\ (Read(TRUE) /\ tracker = [TrackerNew(tracker.capacity) EXCEPT
                                         !.write_offset = tracker.capacity]) =>
              lease' = [start |-> 0, len |-> tracker.capacity]]_vars

\* the buffer was filled exactly from offset 0, read granted [0, capacity),
\* and a write of one byte was then rejected
ExactFillWitness ==
    /\ lease = [start |-> 0, len |-> tracker.capacity]
    /\ last.op = "try_write" /\ ~last.ok /\ last.n = 1
    /\ Len(written) = tracker.capacity
    /\ tracker.capacity > 1

\* C10 (oversize): in every reachable state Tracker::write(capacity + 1)
\* returns None and leaves the tracker as it is.
OversizeRejected ==
    TrackerWrite(tracker, tracker.capacity + 1) = [w |-> None, t |-> tracker]

\* try_write of capacity + 1 bytes was rejected in Inverted state during a
\* lease
OversizeRejectedWitness ==
    /\ last.op = "try_write" /\ ~last.ok /\ last.n = tracker.capacity + 1
    /\ tracker.inverted_at > 0
    /\ lease # None

\* C11 (a wrap is two leases, tail then head): in every Inverted state with
\* no lease outstanding, read grants [read_offset, inverted_at); released
\* with no write in between, the next read grants [0, write_offset); after
\* its release read returns None; and the two views together are the bytes
\* accepted and not yet delivered, in write order.
WrapTwoLeases ==
    (tracker.inverted_at > 0 /\ lease = None) =>
        LET r1 == TrackerRead(tracker)
            t1 == TrackerRelease(tracker, r1)
            r2 == TrackerRead(t1)
            t2 == TrackerRelease(t1, r2)
        IN  /\ r1 = LeaseNew(tracker.read_offset, tracker.inverted_at)
            /\ r1.len > 0
            /\ r2 = LeaseNew(0, tracker.write_offset)
            /\ r2.len > 0
            /\ TrackerRead(t2) = None
            /\ View(data, r1) \o View(data, r2)
                 = SubSeq(written, Len(delivered) + 1, Len(written))

\* the tail lease of a wrapped buffer has been granted and exactly the head
\* bytes are left for the next read
WrapTwoLeasesWitness ==
    /\ last.op = "read" /\ last.ok
    /\ tracker.inverted_at > 0
    /\ lease = LeaseNew(tracker.read_offset, tracker.inverted_at)
    /\ tracker.write_offset > 0
    /\ Len(written) - Len(delivered) = tracker.write_offset

\* a try_write step of the scenario taken when wr bytes are accepted and rd
\* bytes delivered, with no lease outstanding
ScenarioWriteAt(wr, rd) ==
    /\ Len(written) = wr /\ Len(delivered) = rd /\ lease = None
    /\ last'.op = "try_write"
    /\ TryWrite(ScenarioPayload, MaxScenarioBytes, last'.ok)

\* the 8 bytes of the first two writes were read as one lease, and that
\* lease was the last call
EightReadAndReleased ==
    /\ Len(written) = 8 /\ Len(delivered) = 8
    /\ last = [op |-> "release", r |-> LeaseNew(0, 8)]

\* the first write after EightReadAndReleased was the last call
OneWrittenAfterwards ==
    /\ Len(written) = 12 /\ Len(delivered) = 8
    /\ last.op = "try_write" /\ last.ok

\* C12 as stated (capacity 10, payloads of 4): the writes return true, true,
\* false; after the 8 bytes are read and released two more writes succeed,
\* and the second of them flips the tracker to Inverted and is granted at 0.
ExactFillThenRefuseFlips ==
    [][/\ ScenarioWriteAt(0, 0) => last'.ok
       /\ ScenarioWriteAt(4, 0) => last'.ok
       /\ ScenarioWriteAt(8, 0) => ~last'.ok
       /\ (EightReadAndReleased /\ ScenarioWriteAt(8, 8)) => last'.ok
       /\ (OneWrittenAfterwards /\ ScenarioWriteAt(12, 8)) =>
             /\ last'.ok
             /\ tracker.inverted_at = 0 /\ tracker'.inverted_at > 0
             /\ last'.w.start = 0]_vars

\* C12 (amended): the writes return true, true, false; the release of the
\* lease of 8 bytes is a catch-up reset that leaves every offset 0; the two
\* further writes succeed in Normal state at [0, 4) and [4, 8), and
\* inverted_at stays 0.
ExactFillThenRefuse ==
    [][/\ ScenarioWriteAt(0, 0) => last'.ok
       /\ ScenarioWriteAt(4, 0) => last'.ok
       /\ ScenarioWriteAt(8, 0) => ~last'.ok
       /\ (EightReadAndReleased /\ ScenarioWriteAt(8, 8)) =>
             /\ tracker = TrackerNew(ScenarioCapacity)
             /\ last'.ok /\ last'.w = LeaseNew(0, 4)
             /\ tracker'.inverted_at = 0
       /\ (OneWrittenAfterwards /\ ScenarioWriteAt(12, 8)) =>
             /\ last'.ok /\ last'.w = LeaseNew(4, 8)
             /\ tracker'.inverted_at = 0]_vars

\* the second write after the 8 bytes were read and released has been
\* granted [4, 8) with the tracker still Normal
ExactFillThenRefuseWitness ==
    /\ tracker.capacity = ScenarioCapacity
    /\ Len(written) = 16 /\ Len(delivered) = 8 /\ lease = None
    /\ last.op = "try_write" /\ last.ok /\ last.w = LeaseNew(4, 8)
    /\ tracker.inverted_at = 0

\* C13 (zero-length payload): in every reachable state try_write of an empty
\* payload is granted, and its copy and commit leave the tracker and the
\* byte region as they are.
ZeroWriteNoOp ==
    LET g == TrackerWrite(tracker, 0)
    IN  /\ g.w # None
        /\ g.w.len = 0
        /\ TrackerCommit(g.t, g.w) = tracker
        /\ CopyFromSlice(data, g.w, <<>>) = data

\* an empty payload was accepted by a full Inverted buffer during a lease
ZeroWriteNoOpWitness ==
    /\ last.op = "try_write" /\ last.ok /\ last.n = 0
    /\ tracker.inverted_at > 0
    /\ Unread(tracker) = tracker.capacity
    /\ lease # None

\* C14 (sink I/O failure is absorbed): a write_all that returns Err is
\* followed by the release of its lease, after which the worker reads again
\* instead of returning; no byte is passed to the sink twice; the bytes
\* accepted after a failure are still passed to write_all; and a worker that
\* has returned has flushed once, after its last write_all.
FailureAbsorbed ==
    /\ [][/\ (wpc \in {"write", "final_write"} /\ wpc' # wpc /\ failed') =>
              /\ wpc' = (IF wpc = "write" THEN "release" ELSE "final_release")
              /\ lease' = lease
          /\ (wpc \in {"release", "final_release"} /\ wpc' # wpc /\ failed) =>
              /\ wpc' = (IF wpc = "release" THEN "drain" ELSE "final")
              /\ lease' = None
              /\ tracker' = TrackerRelease(tracker, lease)]_vars
    /\ [](IsPrefix(sunk, delivered) /\ IsPrefix(delivered, written))
    /\ [](wpc = "done" => (Disconnected /\ flushes = <<Len(sunk)>>))
    /\ \A k \in 1..MaxSinkBytes :
          (failed /\ Len(written) >= k) ~> (Len(sunk) >= k)

\* the last write_all failed, its lease has been released, and the worker
\* holds the lease of a payload accepted afterwards, about to pass it on
FailureAbsorbedWitness ==
    /\ failed
    /\ wpc = "write" /\ lease # None
    /\ Len(sunk) > 0 /\ Len(delivered) > Len(sunk)

\* C15 as stated (state machine with a strict Inverted ordering): Normal is
\* inverted_at = 0 and read_offset <= write_offset, Inverted is
\* inverted_at > 0 and write_offset < read_offset <= inverted_at <= capacity.
StateMachineStrict ==
    \/ tracker.inverted_at = 0 /\ tracker.read_offset <= tracker.write_offset
    \/ /\ tracker.inverted_at > 0
       /\ tracker.write_offset < tracker.read_offset
       /\ tracker.read_offset <= tracker.inverted_at
       /\ tracker.inverted_at <= tracker.capacity

\* C15 (state machine, amended): after every operation the tracker is Normal
\* (inverted_at = 0 and read_offset <= write_offset) or Inverted
\* (inverted_at > 0 and write_offset <= read_offset <= inverted_at <=
\* capacity); write_offset may equal read_offset when the head is full.
StateMachine ==
    \/ tracker.inverted_at = 0 /\ tracker.read_offset <= tracker.write_offset
    \/ /\ tracker.inverted_at > 0
       /\ tracker.write_offset <= tracker.read_offset
       /\ tracker.read_offset <= tracker.inverted_at
       /\ tracker.inverted_at <= tracker.capacity

\* a write has filled the head of an Inverted buffer up to read_offset
StateMachineWitness ==
    /\ last.op = "try_write" /\ last.ok /\ last.n > 0
    /\ tracker.inverted_at > 0
    /\ tracker.write_offset = tracker.read_offset

\* C16 (bounds and Normal ordering): the three offsets lie in 0..capacity,
\* and inverted_at = 0 implies read_offset <= write_offset.
NormalOrdering ==
    /\ tracker.write_offset \in 0..tracker.capacity
    /\ tracker.read_offset \in 0..tracker.capacity
    /\ tracker.inverted_at \in 0..tracker.capacity
    /\ tracker.inverted_at = 0 => tracker.read_offset <= tracker.write_offset

\* release has just taken the tail-drained branch: read_offset is 0 and the
\* head's write_offset is kept
NormalOrderingWitness ==
    /\ last.op = "release" /\ last.r.start > 0
    /\ tracker.inverted_at = 0
    /\ tracker.read_offset = 0
    /\ tracker.write_offset > 0

\* bytes of the read-leases released so far
Released == Len(delivered) - (IF lease = None THEN 0 ELSE lease.len)

AbortLeavesTracker ==
    [][last'.op = "write_abort" => tracker' = tracker]_vars

\* C19 (catch-up implies non-inverted): whenever the outstanding lease ends
\* at write_offset, inverted_at is 0, the lease is all the unread data, and
\* its release leaves the tracker as Tracker::new made it.
CatchUpNotInverted ==
    (lease # None /\ lease.start + lease.len = tracker.write_offset) =>
        /\ tracker.inverted_at = 0
        /\ Unread(tracker) = lease.len
        /\ TrackerRelease(tracker, lease) = TrackerNew(tracker.capacity)

\* release took the catch-up branch for a lease that did not start at 0
CatchUpNotInvertedWitness ==
    /\ last.op = "release" /\ last.r.start > 0
    /\ tracker = TrackerNew(tracker.capacity)

\* C20 (the flip never records 0): whenever Tracker::write grants a lease
\* from a Normal state in which the payload does not fit after write_offset
\* (the flip branch), write_offset is positive and so is the inverted_at it
\* stores.
FlipMarkerPositive ==
    \A n \in 0..tracker.capacity+1 :
        LET g == TrackerWrite(tracker, n)
        IN  (/\ tracker.inverted_at = 0
             /\ tracker.write_offset + n > tracker.capacity
             /\ g.w # None) =>
                /\ tracker.write_offset > 0
                /\ g.t.inverted_at = tracker.write_offset
                /\ g.t.inverted_at > 0

\* C21 (worker termination): once every Handle is dropped the worker
\* eventually returns, and a worker that has returned left the receive loop
\* only after disconnection, found the buffer empty in its last read, holds
\* no lease and has flushed the sink.
WorkerTerminates ==
    /\ Disconnected ~> (wpc = "done")
    /\ [](wpc = "done" =>
            /\ Disconnected /\ chan = 0
            /\ lease = None /\ TrackerRead(tracker) = None
            /\ Len(flushes) = 1)

\* the worker has returned after both Handles wrote and were dropped, having
\* passed bytes to the sink
WorkerTerminatesWitness ==
    /\ wpc = "done"
    /\ \A h \in 1..2 : handles[h] = "dropped"
    /\ Len(sunk) > 0 /\ Len(flushes) = 1
    /\ lease = None

\* C22 (empty means fully reset): whenever no lease is outstanding and read
\* would return None, the three offsets are 0 and a write of any size up to
\* the capacity would be granted.
EmptyMeansReset ==
    (lease = None /\ TrackerRead(tracker) = None) =>
        /\ tracker = TrackerNew(tracker.capacity)
        /\ \A n \in 0..tracker.capacity : TrackerWrite(tracker, n).w # None

\* the buffer has been drained by a release after more bytes than its
\* capacity went through it
EmptyMeansResetWitness ==
    /\ lease = None /\ TrackerRead(tracker) = None
    /\ last.op = "release"
    /\ Len(written) > tracker.capacity
    /\ Len(delivered) = Len(written)

\* C23 (the tail is never empty while inverted): in every reachable state
\* inverted_at > 0 implies read_offset < inverted_at, so read grants a lease
\* whenever the tracker is Inverted.
TailNonEmpty ==
    tracker.inverted_at > 0 =>
        /\ tracker.read_offset < tracker.inverted_at
        /\ TrackerRead(tracker) # None

\* a release has moved read_offset forward inside the tail of an Inverted
\* buffer
TailNonEmptyWitness ==
    /\ tracker.inverted_at > 0
    /\ last.op = "release"
    /\ tracker.read_offset > 0
    /\ tracker.read_offset < tracker.inverted_at

\* a flip write has just been committed with no lease outstanding
FlipMarkerPositiveWitness ==
    /\ last.op = "try_write" /\ last.ok /\ last.n > 0
    /\ last.w.start = 0
    /\ tracker.inverted_at > 0
    /\ tracker.write_offset = last.n
    /\ lease = None

TypeOK ==
    /\ tracker.capacity \in 1..MaxCapacity
    /\ tracker.write_offset \in 0..tracker.capacity
    /\ tracker.read_offset \in 0..tracker.capacity
    /\ tracker.inverted_at \in 0..tracker.capacity
    /\ DOMAIN data = 0..tracker.capacity-1
====
